---- MODULE Spec2Model ----
(***************************************************************************)
(* Function expressions of the VoltDB execution engine                     *)
(* (src/ee/expressions/functionexpression.cpp): the forced SQL ERROR       *)
(* function in its unary and two-argument forms, the function expression   *)
(* nodes and ExpressionUtil::functionFactory with the ownership of the     *)
(* argument vector, and the SchedulerValidationErrors accumulator.         *)
(***************************************************************************)
EXTENDS Integers, Sequences, FiniteSets, TLC

VARIABLES
    \* ---- functionFactory / expression nodes ----
    fpc,          \* "start" | "returned" | "destroyed"
    et,           \* ExpressionType handed to functionFactory
    arguments,    \* contents of the heap vector<AbstractExpression*> (child ids)
    ret,          \* the node functionFactory returned (variant "null" for 0)
    releaseLog,   \* heap objects in the order they were deleted
    ndebug,       \* TRUE when the build compiles assert() away
    epc,          \* "idle" | "loop" | "done" | "raised" : position inside eval
    tuples,       \* <<tuple1, tuple2>> of the eval call in progress
    i,            \* loop index of GeneralFunctionExpression::eval
    nValue,       \* std::vector<NValue> nValue of the eval call
    evalLog,      \* observable events of the eval call, in order
    outcome,      \* what the eval call produced
    \* ---- NValue::callUnary / NValue::call on their own ----
    vpc,          \* "ready" | "done"
    vargs,        \* <<operand>> or <<codeArg, strValue>>
    vout,         \* outcome of the call
    \* ---- SchedulerValidationErrors ----
    m_errors,     \* [isNull, list] : List<String> m_errors
    added,        \* history: the non-null messages passed to addErrorMessage
    nCalls,       \* number of addErrorMessage calls made so far
    lastOp,       \* "new" | "add" | "has" | "get"
    lastHas,      \* last value returned by hasErrors()
    lastMsg       \* last value returned by getErrorMessage(): [isNull, str]

factoryVars == <<fpc, et, arguments, ret, releaseLog, ndebug, epc, tuples, i,
                 nValue, evalLog, outcome>>
valueVars   == <<vpc, vargs, vout>>
accumVars   == <<m_errors, added, nCalls, lastOp, lastHas, lastMsg>>
vars        == <<factoryVars, valueVars, accumVars>>

----------------------------------------------------------------------------
\* Bounds of the model.
MaxInt  == 11     \* integer operands range over -MaxInt..MaxInt
MaxLen  == 3      \* longest text value (in characters)
MaxArgs == 3      \* longest argument list given to functionFactory
MaxAdds == 3      \* addErrorMessage calls per accumulator instance

Min(a, b) == IF a < b THEN a ELSE b

Alphabet == {"a", "b"}
Texts == UNION {[1..n -> Alphabet] : n \in 0..MaxLen}

----------------------------------------------------------------------------
\* NValue: a tagged value.  Two value types are enough for the forced error
\* function: an integer type and VALUE_TYPE_VARCHAR; each has a null.
IntValue(n)    == [type |-> "BIGINT",  isNull |-> FALSE, int |-> n, str |-> <<>>]
TextValue(s)   == [type |-> "VARCHAR", isNull |-> FALSE, int |-> 0, str |-> s]
NullValue(t)   == [type |-> t,         isNull |-> TRUE,  int |-> 0, str |-> <<>>]
NValues == {IntValue(n) : n \in -MaxInt..MaxInt} \cup {TextValue(s) : s \in Texts}
           \cup {NullValue("BIGINT"), NullValue("VARCHAR")}

\* Outcomes of a call: a returned NValue or a thrown exception.
NoOutcome == [kind |-> "none", code |-> <<>>, text |-> <<>>,
              value |-> NullValue("BIGINT"), castFrom |-> "", castTo |-> ""]
Return(v) == [NoOutcome EXCEPT !.kind = "return", !.value = v]
SQLException(msgcode, msgtext) ==
    [NoOutcome EXCEPT !.kind = "UserRaisedError", !.code = msgcode, !.text = msgtext]
throwCastSQLException(from, to) ==
    [NoOutcome EXCEPT !.kind = "CastFailure", !.castFrom = from, !.castTo = to]
AssertionFailure == [NoOutcome EXCEPT !.kind = "ArityViolation"]
Applied == [NoOutcome EXCEPT !.kind = "applied"]
ChildRaised == [NoOutcome EXCEPT !.kind = "ChildRaised"]

\* The two message constants of SQLException the function uses.
nonspecific_error_code_for_error_forced_by_user == <<"9", "9", "9", "9", "9">>
specific_error_specified_by_user ==
    <<"Specific error code specified by user invocation of SQL_ERROR">>

BufferSize == 1024

\* snprintf(buffer, size, "%s", src): writes at most size-1 characters and a
\* terminating NUL; with size = 0 it writes nothing and the buffer keeps what
\* it held before the call.
snprintf_s(buffer, size, src) ==
    IF size = 0 THEN buffer
    ELSE SubSeq(src, 1, Min(size - 1, Len(src)))

\* snprintf(buffer, sizeof(buffer), "%ld", (long) intValue)
DigitChar(d) == <<"0", "1", "2", "3", "4", "5", "6", "7", "8", "9">>[d + 1]
RECURSIVE digitsOf(_)
digitsOf(n) == IF n < 10 THEN <<DigitChar(n)>>
               ELSE Append(digitsOf(n \div 10), DigitChar(n % 10))
snprintf_ld(n) ==
    LET s == IF n < 0 THEN <<"-">> \o digitsOf(0 - n) ELSE digitsOf(n)
    IN SubSeq(s, 1, Min(BufferSize - 1, Len(s)))

getObjectLength(v) == Len(v.str)

\* NValue::castAsBigIntAndGetValue: the integer of an integer value; a text
\* value cannot be cast and the cast throws.
castAsBigIntAndGetValue(v) ==
    IF v.type = "VARCHAR"
    THEN [failed |-> TRUE, value |-> 0]
    ELSE [failed |-> FALSE, value |-> v.int]

\* if (intValue != 0) throw SQLException(msgcode, msgtext);
shouldThrow_m(intValue) == intValue > 0
shouldThrow(intValue) == intValue # 0

\* NValue::callUnary<EXPRESSION_TYPE_FUNCTION_SQL_ERROR>.  uninit is what the
\* stack buffer holds before anything is written to it.
callUnary_SQL_ERROR(self, uninit) ==
    IF self.type = "VARCHAR"
    THEN LET intValue == -1
             valueUTF8Length == getObjectLength(self)
             buffer == snprintf_s(uninit, Min(BufferSize, valueUTF8Length), self.str)
         IN IF shouldThrow(intValue)
            THEN SQLException(nonspecific_error_code_for_error_forced_by_user, buffer)
            ELSE Return(self)
    ELSE LET c == castAsBigIntAndGetValue(self)
         IN IF c.failed THEN throwCastSQLException(self.type, "BIGINT")
            ELSE LET intValue == c.value
                     buffer == snprintf_ld(intValue)
                 IN IF shouldThrow(intValue)
                    THEN SQLException(buffer, specific_error_specified_by_user)
                    ELSE Return(self)

\* Lines 153-160 of call<SQL_ERROR>: the code argument.
resolveCode_m(codeArg) ==
    IF codeArg.isNull
    THEN [failed |-> FALSE, intValue |-> 0,
          msgcode |-> nonspecific_error_code_for_error_forced_by_user]
    ELSE LET c == castAsBigIntAndGetValue(codeArg)
         IN [failed |-> c.failed, intValue |-> c.value,
             msgcode |-> snprintf_ld(c.value)]
resolveCode(codeArg) ==
    IF codeArg.isNull
    THEN [failed |-> FALSE, intValue |-> -1,
          msgcode |-> nonspecific_error_code_for_error_forced_by_user]
    ELSE LET c == castAsBigIntAndGetValue(codeArg)
         IN [failed |-> c.failed, intValue |-> c.value,
             msgcode |-> snprintf_ld(c.value)]

\* Lines 162-174 of call<SQL_ERROR>: the message argument.
resolveText_m(strValue, uninit) ==
    IF strValue.isNull
    THEN [failed |-> FALSE, msgtext |-> <<>>]
    ELSE [failed |-> FALSE,
          msgtext |-> snprintf_s(uninit,
                                 Min(BufferSize, getObjectLength(strValue)),
                                 strValue.str)]
resolveText(strValue, uninit) ==
    IF strValue.isNull
    THEN [failed |-> FALSE, msgtext |-> <<>>]
    ELSE IF strValue.type # "VARCHAR"
         THEN [failed |-> TRUE, msgtext |-> <<>>]
         ELSE [failed |-> FALSE,
               msgtext |-> snprintf_s(uninit,
                                      Min(BufferSize, getObjectLength(strValue)),
                                      strValue.str)]

\* NValue::call<EXPRESSION_TYPE_FUNCTION_SQL_ERROR>, after its assert.
call_SQL_ERROR(args, uninit) ==
    LET codeArg == args[1]
        rc == resolveCode(codeArg)
    IN IF rc.failed THEN throwCastSQLException(codeArg.type, "BIGINT")
       ELSE LET strValue == args[2]
                rt == resolveText(strValue, uninit)
            IN IF rt.failed THEN throwCastSQLException(strValue.type, "VARCHAR")
               ELSE IF shouldThrow(rc.intValue)
                    THEN SQLException(rc.msgcode, rt.msgtext)
                    ELSE Return(codeArg)

\* assert(arguments.size() == 2) in front of it: a build with assertions
\* aborts, a build without them goes on with the first two arguments.
call_SQL_ERROR_asserted(args, uninit, noAssert) ==
    IF Len(args) # 2 /\ ~noAssert THEN AssertionFailure
    ELSE call_SQL_ERROR(args, uninit)

----------------------------------------------------------------------------
\* Heap objects: the argument vector and the child expressions it holds.
Container == 0
ExpressionTypes == {"ABS", "SQL_ERROR", "SUBSTRING_FROM", "SUBSTRING_FROM_FOR",
                    "OPERATOR_PLUS"}

NullNode == [variant |-> "null", E |-> "", m_child |-> 0, m_args |-> "none"]
\* UnaryFunctionExpression<E>(child): keeps the child pointer.
UnaryFunctionExpression(e, child) ==
    [variant |-> "Unary", E |-> e, m_child |-> child, m_args |-> "none"]
\* GeneralFunctionExpression<E>(args): keeps a reference to the caller's vector.
GeneralFunctionExpression(e) ==
    [variant |-> "General", E |-> e, m_child |-> 0, m_args |-> "container"]

\* The identities functionFactory knows in case 1 and in the default case.
UnaryFunctions_m == {"ABS"}
UnaryFunctions == {"ABS", "SQL_ERROR"}
GeneralFunctions == {"SUBSTRING_FROM", "SUBSTRING_FROM_FOR", "SQL_ERROR"}

\* ExpressionUtil::functionFactory: the node it returns ...
functionFactory_ret(e, args) ==
    LET nArgs == Len(args)
    IN IF nArgs = 0 THEN NullNode
       ELSE IF nArgs = 1
            THEN IF e \in UnaryFunctions
                 THEN UnaryFunctionExpression(e, args[1])
                 ELSE NullNode
            ELSE IF e \in GeneralFunctions
                 THEN GeneralFunctionExpression(e)
                 ELSE NullNode
\* ... and what it deletes: the vector in case 0 and case 1, nothing otherwise.
functionFactory_deletes(args) ==
    IF Len(args) <= 1 THEN <<Container>> ELSE <<>>

\* ~UnaryFunctionExpression: delete m_child.
UnaryDestructor(node) == <<node.m_child>>
\* ~GeneralFunctionExpression: delete m_args[i] from the last to the first,
\* then delete &m_args.
RECURSIVE deleteBackwards(_, _)
deleteBackwards(args, n) ==
    IF n = 0 THEN <<>> ELSE <<args[n]>> \o deleteBackwards(args, n - 1)
GeneralDestructor_m(args) == deleteBackwards(args, Len(args))
GeneralDestructor(args) == deleteBackwards(args, Len(args)) \o <<Container>>

\* std::vector<NValue> nValue(m_args.size()): default constructed values.
DefaultNValue == [type |-> "INVALID", isNull |-> FALSE, int |-> 0, str |-> <<>>]
\* m_args[i] of the eval loop (C++ indexes from 0).
childAt_m(args, idx) == args[Len(args) - idx]
childAt(args, idx) == args[idx + 1]

TuplePairs == {<<"row1", "row2">>, <<"row3", "none">>}
\* Values a child expression may evaluate to.
ChildValues == {IntValue(0), IntValue(1), TextValue(<<"a", "b">>),
                NullValue("BIGINT")}

ChildEvent(child, t, v, threw) ==
    [op |-> "child", child |-> child, t |-> t, result |-> v, raised |-> threw,
     args |-> <<>>]
CallEvent(t, list) ==
    [op |-> "call", child |-> Container, t |-> t, result |-> DefaultNValue,
     raised |-> FALSE, args |-> list]

----------------------------------------------------------------------------
\* The forced error function called directly on drawn arguments.
FactoryIdle ==
    /\ fpc = "off" /\ et = "ABS" /\ arguments = <<>>
    /\ ret = NullNode
    /\ releaseLog = <<>> /\ ndebug = FALSE /\ epc = "idle"
    /\ tuples = <<"", "">> /\ i = 0 /\ nValue = <<>> /\ evalLog = <<>>
    /\ outcome = NoOutcome
ValueIdle == vpc = "off" /\ vargs = <<>> /\ vout = NoOutcome
AccumIdle ==
    /\ m_errors = [isNull |-> TRUE, list |-> <<>>] /\ added = <<>> /\ nCalls = 0
    /\ lastOp = "off" /\ lastHas = FALSE
    /\ lastMsg = [isNull |-> TRUE, str |-> <<>>]

InitValue ==
    /\ vpc = "ready"
    /\ vargs \in {<<v>> : v \in {x \in NValues : ~x.isNull}}
                 \cup {<<c, s>> : c \in NValues, s \in NValues}
    /\ vout = NoOutcome
    /\ FactoryIdle /\ AccumIdle

callUnary ==
    /\ vpc = "ready" /\ Len(vargs) = 1
    /\ \E uninit \in Texts : vout' = callUnary_SQL_ERROR(vargs[1], uninit)
    /\ vpc' = "done"
    /\ UNCHANGED <<vargs, factoryVars, accumVars>>

call ==
    /\ vpc = "ready" /\ Len(vargs) = 2
    /\ \E uninit \in Texts : vout' = call_SQL_ERROR_asserted(vargs, uninit, FALSE)
    /\ vpc' = "done"
    /\ UNCHANGED <<vargs, factoryVars, accumVars>>

NextValue == callUnary \/ call
SpecValue == InitValue /\ [][NextValue]_vars

----------------------------------------------------------------------------
\* functionFactory, evaluation and destruction of the node it returns.
Init ==
    /\ fpc = "start"
    /\ et \in ExpressionTypes
    /\ arguments \in {[j \in 1..n |-> j] : n \in 0..MaxArgs}
    /\ ret = NullNode
    /\ releaseLog = <<>>
    /\ ndebug \in BOOLEAN
    /\ epc = "idle" /\ tuples = <<"", "">> /\ i = 0 /\ nValue = <<>>
    /\ evalLog = <<>> /\ outcome = NoOutcome
    /\ ValueIdle /\ AccumIdle

functionFactory ==
    /\ fpc = "start"
    /\ ret' = functionFactory_ret(et, arguments)
    /\ releaseLog' = releaseLog \o functionFactory_deletes(arguments)
    /\ fpc' = "returned"
    /\ UNCHANGED <<et, arguments, ndebug, epc, tuples, i, nValue, evalLog,
                   outcome, valueVars, accumVars>>

\* delete of the returned node, between two eval calls.
DeleteNode ==
    /\ fpc = "returned" /\ ret.variant # "null" /\ epc # "loop"
    /\ releaseLog' = releaseLog \o
           (IF ret.variant = "Unary" THEN UnaryDestructor(ret)
            ELSE GeneralDestructor(arguments))
    /\ fpc' = "destroyed"
    /\ UNCHANGED <<et, arguments, ret, ndebug, epc, tuples, i, nValue, evalLog,
                   outcome, valueVars, accumVars>>

\* UnaryFunctionExpression::eval
UnaryEval ==
    /\ fpc = "returned" /\ ret.variant = "Unary"
    /\ \E t \in TuplePairs :
         /\ tuples' = t
         /\ \/ /\ evalLog' = <<ChildEvent(ret.m_child, t, DefaultNValue, TRUE)>>
               /\ outcome' = ChildRaised
               /\ epc' = "raised"
            \/ \E v \in ChildValues, uninit \in Texts :
               /\ evalLog' = <<ChildEvent(ret.m_child, t, v, FALSE),
                               CallEvent(t, <<v>>)>>
               /\ outcome' = IF ret.E = "SQL_ERROR"
                             THEN callUnary_SQL_ERROR(v, uninit)
                             ELSE Applied
               /\ epc' = "done"
    /\ UNCHANGED <<fpc, et, arguments, ret, releaseLog, ndebug, i, nValue,
                   valueVars, accumVars>>

\* GeneralFunctionExpression::eval, line 96
EvalBegin ==
    /\ fpc = "returned" /\ ret.variant = "General" /\ epc # "loop"
    /\ \E t \in TuplePairs : tuples' = t
    /\ nValue' = [j \in 1..Len(arguments) |-> DefaultNValue]
    /\ i' = 0
    /\ evalLog' = <<>>
    /\ outcome' = NoOutcome
    /\ epc' = "loop"
    /\ UNCHANGED <<fpc, et, arguments, ret, releaseLog, ndebug, valueVars,
                   accumVars>>

\* one iteration of the loop, lines 97-99
EvalChild ==
    /\ epc = "loop" /\ i < Len(arguments)
    /\ \/ /\ evalLog' = Append(evalLog, ChildEvent(childAt(arguments, i), tuples,
                                                   DefaultNValue, TRUE))
          /\ outcome' = ChildRaised
          /\ epc' = "raised"
          /\ UNCHANGED <<i, nValue>>
       \/ \E v \in ChildValues :
          /\ evalLog' = Append(evalLog, ChildEvent(childAt(arguments, i), tuples,
                                                   v, FALSE))
          /\ nValue' = [nValue EXCEPT ![i + 1] = v]
          /\ i' = i + 1
          /\ UNCHANGED <<epc, outcome>>
    /\ UNCHANGED <<fpc, et, arguments, ret, releaseLog, ndebug, tuples,
                   valueVars, accumVars>>

\* return NValue::call<E>(nValue), line 100
EvalCall ==
    /\ epc = "loop" /\ ~(i < Len(arguments))
    /\ evalLog' = Append(evalLog, CallEvent(tuples, nValue))
    /\ \E uninit \in Texts :
         outcome' = IF ret.E = "SQL_ERROR"
                    THEN call_SQL_ERROR_asserted(nValue, uninit, ndebug)
                    ELSE Applied
    /\ epc' = "done"
    /\ UNCHANGED <<fpc, et, arguments, ret, releaseLog, ndebug, tuples, i,
                   nValue, valueVars, accumVars>>

Next == functionFactory \/ DeleteNode \/ UnaryEval \/ EvalBegin \/ EvalChild
        \/ EvalCall
Spec == Init /\ [][Next]_vars

----------------------------------------------------------------------------
\* SchedulerValidationErrors.  A String is [isNull, str]; messages are short
\* texts without a newline.
NullString == [isNull |-> TRUE, str |-> <<>>]
String(s) == [isNull |-> FALSE, str |-> s]
Messages == {<<>>, <<"a">>, <<"b">>, <<"a", "b">>}
Newline == "\n"

\* Joiner.on('\n').join(list)
RECURSIVE join(_)
join(list) ==
    IF list = <<>> THEN <<>>
    ELSE IF Len(list) = 1 THEN list[1]
    ELSE list[1] \o <<Newline>> \o join(Tail(list))

\* addErrorMessage(error): the new value of m_errors
addErrorMessage_m(errors, error) ==
    IF errors.isNull
    THEN [isNull |-> FALSE, list |-> IF error.isNull THEN <<>> ELSE <<error.str>>]
    ELSE IF error.isNull THEN errors
         ELSE [isNull |-> FALSE, list |-> Append(errors.list, error.str)]
addErrorMessage_update(errors, error) ==
    IF error.isNull THEN errors
    ELSE LET created == IF errors.isNull
                        THEN [isNull |-> FALSE, list |-> <<>>]
                        ELSE errors
         IN [created EXCEPT !.list = Append(created.list, error.str)]

hasErrors_ret(errors) == ~errors.isNull

getErrorMessage_ret(errors) ==
    IF errors.isNull THEN NullString ELSE String(join(errors.list))

InitAccum ==
    /\ m_errors = [isNull |-> TRUE, list |-> <<>>]
    /\ added = <<>>
    /\ nCalls = 0
    /\ lastOp = "new"
    /\ lastHas = FALSE
    /\ lastMsg = NullString
    /\ FactoryIdle /\ ValueIdle

addErrorMessage ==
    /\ lastOp # "off" /\ nCalls < MaxAdds
    /\ \E error \in {NullString} \cup {String(m) : m \in Messages} :
         /\ m_errors' = addErrorMessage_update(m_errors, error)
         /\ added' = IF error.isNull THEN added ELSE Append(added, error.str)
    /\ nCalls' = nCalls + 1
    /\ lastOp' = "add"
    /\ UNCHANGED <<lastHas, lastMsg, factoryVars, valueVars>>

hasErrors ==
    /\ lastOp # "off"
    /\ lastHas' = hasErrors_ret(m_errors)
    /\ lastOp' = "has"
    /\ UNCHANGED <<m_errors, added, nCalls, lastMsg, factoryVars, valueVars>>

getErrorMessage ==
    /\ lastOp # "off"
    /\ lastMsg' = getErrorMessage_ret(m_errors)
    /\ lastOp' = "get"
    /\ UNCHANGED <<m_errors, added, nCalls, lastHas, factoryVars, valueVars>>

NextAccum == addErrorMessage \/ hasErrors \/ getErrorMessage
SpecAccum == InitAccum /\ [][NextAccum]_vars

----------------------------------------------------------------------------
\* Helpers of the properties.
Range(seq) == {seq[j] : j \in 1..Len(seq)}
Count(seq, x) == Cardinality({j \in 1..Len(seq) : seq[j] = x})
HeapObjects == {Container} \cup Range(arguments)

\* Reading a decimal numeral back: an optional sign, then digits without a
\* leading zero.
Digits == {DigitChar(d) : d \in 0..9}
DigitVal(c) == CHOOSE d \in 0..9 : DigitChar(d) = c
RECURSIVE digitsValue(_)
digitsValue(s) ==
    IF s = <<>> THEN 0
    ELSE 10 * digitsValue(SubSeq(s, 1, Len(s) - 1)) + DigitVal(s[Len(s)])
IsDecimal(s) ==
    /\ s # <<>>
    /\ LET body == IF s[1] = "-" THEN Tail(s) ELSE s
       IN /\ body # <<>>
          /\ Range(body) \subseteq Digits
          /\ (Len(body) > 1 => body[1] # "0")
          /\ (s[1] = "-" => body # <<"0">>)
DecimalValue(s) ==
    IF s[1] = "-" THEN 0 - digitsValue(Tail(s)) ELSE digitsValue(s)

\* The (identity, argument count) pairs the factory is specified to accept.
Registered(e, n) ==
    \/ n = 1 /\ e \in {"ABS", "SQL_ERROR"}
    \/ n >= 2 /\ e \in {"SUBSTRING_FROM", "SUBSTRING_FROM_FOR", "SQL_ERROR"}

\* Splitting a text at its newlines.
RECURSIVE split(_)
split(s) ==
    LET idx == {j \in 1..Len(s) : s[j] = Newline}
    IN IF idx = {} THEN <<s>>
       ELSE LET k == CHOOSE j \in idx : \A l \in idx : j <= l
            IN <<SubSeq(s, 1, k - 1)>> \o split(SubSeq(s, k + 1, Len(s)))

----------------------------------------------------------------------------
\* C1: for every unregistered (identity, argument count) pair functionFactory
\* returns no node and has released the argument vector and every child in it.
C1_UnregisteredReleased ==
    (fpc = "returned" /\ ~Registered(et, Len(arguments))) =>
        /\ ret.variant = "null"
        /\ \A o \in HeapObjects : o \in Range(releaseLog)

\* C2: for every registered pair functionFactory returns a node of the matching
\* variant carrying the identity: a unary node whose child is the one argument,
\* or an n-ary node that refers to the live argument vector with its children
\* in the order given.
C2_RegisteredBuilt ==
    (fpc = "returned" /\ Registered(et, Len(arguments))) =>
        /\ ret.E = et
        /\ IF Len(arguments) = 1
           THEN /\ ret.variant = "Unary"
                /\ ret.m_child = arguments[1]
           ELSE /\ ret.variant = "General"
                /\ ret.m_args = "container"
                /\ Container \notin Range(releaseLog)
                /\ \A j \in 1..Len(arguments) :
                       childAt(arguments, j - 1) = j
C2_Witness ==
    /\ fpc = "returned" /\ et = "SQL_ERROR" /\ Len(arguments) = 1
    /\ ret.variant = "Unary"

\* C3: whenever the forced error function raises with a message taken from a
\* text argument t, the message of the error is exactly t.
C3_MessageIsFullText ==
    (vpc = "done" /\ vout.kind = "UserRaisedError") =>
        /\ (Len(vargs) = 1 /\ vargs[1].type = "VARCHAR"
               => vout.text = vargs[1].str)
        /\ (Len(vargs) = 2 /\ ~vargs[2].isNull /\ vargs[2].type = "VARCHAR"
               => vout.text = vargs[2].str)

\* C4: unary forced error: integer 0 returns the operand and raises nothing; a
\* non-zero integer n raises with the decimal numeral of n as code and the
\* generic message; a text operand always raises with the generic code.
C4_UnaryForcedError ==
    (vpc = "done" /\ Len(vargs) = 1) =>
        LET operand == vargs[1]
        IN /\ (operand.type = "BIGINT" /\ operand.int = 0
                  => vout.kind = "return" /\ vout.value = operand)
           /\ (operand.type = "BIGINT" /\ operand.int # 0
                  => /\ vout.kind = "UserRaisedError"
                     /\ IsDecimal(vout.code)
                     /\ DecimalValue(vout.code) = operand.int
                     /\ (vout.code[1] = "-" <=> operand.int < 0)
                     /\ vout.text = specific_error_specified_by_user)
           /\ (operand.type = "VARCHAR"
                  => /\ vout.kind = "UserRaisedError"
                     /\ vout.code = nonspecific_error_code_for_error_forced_by_user)
C4_Witness ==
    /\ vpc = "done" /\ Len(vargs) = 1
    /\ vargs[1].type = "BIGINT" /\ vargs[1].int = 0 - 10
    /\ vout.kind = "UserRaisedError" /\ vout.code = <<"-", "1", "0">>

C6_CastFailures ==
    (vpc = "done" /\ Len(vargs) = 2) =>
        LET codeArg == vargs[1]
            strValue == vargs[2]
        IN /\ (~codeArg.isNull /\ codeArg.type = "VARCHAR"
                  => /\ vout.kind = "CastFailure"
                     /\ vout.castFrom = "VARCHAR" /\ vout.castTo = "BIGINT")
           /\ ((~codeArg.isNull /\ codeArg.type = "BIGINT"
                 /\ ~strValue.isNull /\ strValue.type # "VARCHAR")
                  => /\ vout.kind = "CastFailure"
                     /\ vout.castFrom = strValue.type /\ vout.castTo = "VARCHAR")
C6_Witness ==
    /\ vpc = "done" /\ Len(vargs) = 2
    /\ vargs[1] = IntValue(0) /\ vargs[2] = IntValue(5)
    /\ vout.kind = "CastFailure" /\ vout.castTo = "VARCHAR"

\* C7: one eval of an n-ary node with k children evaluates child 0, 1, ..., k-1
\* in that order, each once and with the rows of the call, stores result j at
\* position j of a fresh list of length k, and applies the function once, to
\* that list, after the last child; when a child raises, no later child is
\* evaluated and the function is not applied.
C7_EvalOrder ==
    (ret.variant = "General" /\ epc # "idle") =>
        LET k == Len(arguments)
            n == Len(evalLog)
        IN /\ Len(nValue) = k
           /\ \A j \in 1..n :
                 /\ j <= k => /\ evalLog[j].op = "child"
                              /\ evalLog[j].child = arguments[j]
                              /\ evalLog[j].t = tuples
                 /\ j < n => ~evalLog[j].raised
                 /\ (evalLog[j].op = "child" /\ ~evalLog[j].raised)
                        => nValue[j] = evalLog[j].result
           /\ \A j \in 1..k :
                 (j > n \/ evalLog[j].raised) => nValue[j] = DefaultNValue
           /\ (epc = "loop" => n = i /\ i <= k /\ (n > 0 => ~evalLog[n].raised))
           /\ (epc = "done" => /\ n = k + 1
                               /\ evalLog[n].op = "call"
                               /\ evalLog[n].args = nValue)
           /\ (epc = "raised" => /\ n >= 1 /\ n <= k
                                 /\ evalLog[n].raised
                                 /\ outcome = ChildRaised)
C7_Witness ==
    /\ ret.variant = "General" /\ epc = "raised"
    /\ Len(arguments) = 3 /\ Len(evalLog) = 2
    /\ evalLog[1].child = 1 /\ evalLog[2].child = 2 /\ evalLog[2].raised

\* C8: the accumulator has errors exactly when a non-null message was added;
\* its message is the added non-null messages in order joined by newlines, and
\* is absent exactly when it has no errors; null messages and the two queries
\* leave the accumulated messages as they were.
C8_Accumulator ==
    (lastOp # "off") =>
        /\ (hasErrors_ret(m_errors) <=> Len(added) > 0)
        /\ (~m_errors.isNull => m_errors.list = added)
        /\ (getErrorMessage_ret(m_errors).isNull <=> ~hasErrors_ret(m_errors))
        /\ (Len(added) > 0 => split(getErrorMessage_ret(m_errors).str) = added)
        /\ (lastOp = "has" => lastHas = (Len(added) > 0))
        /\ (lastOp = "get" =>
               /\ (lastMsg.isNull <=> Len(added) = 0)
               /\ (~lastMsg.isNull => split(lastMsg.str) = added))
C8_Witness ==
    /\ lastOp = "get" /\ nCalls = 3 /\ Len(added) = 2
    /\ lastMsg = String(<<"a", "b", Newline, "b">>)

\* C9: every n-ary forced error node the factory returns holds exactly the two
\* arguments its call implementation asserts, so evaluating it never ends in
\* an arity violation.
C9_ForcedErrorArity ==
    (fpc = "returned" /\ ret.variant = "General" /\ ret.E = "SQL_ERROR") =>
        /\ Len(arguments) = 2
        /\ outcome.kind # "ArityViolation"

\* C10: after a successful functionFactory and the deletion of the node, the
\* argument vector and every child have been released exactly once: for a
\* unary node the factory released the vector and the node its child; for an
\* n-ary node the factory released nothing, the vector stays allocated while
\* the node lives, and the node releases the children and then the vector.
C10_ReleasedOnce ==
    /\ (fpc = "returned" /\ ret.variant = "Unary" => releaseLog = <<Container>>)
    /\ (fpc = "returned" /\ ret.variant = "General" => releaseLog = <<>>)
    /\ (fpc = "destroyed" =>
           /\ \A o \in HeapObjects : Count(releaseLog, o) = 1
           /\ Len(releaseLog) = Cardinality(HeapObjects)
           /\ (ret.variant = "Unary"
                  => releaseLog = <<Container, arguments[1]>>)
           /\ (ret.variant = "General"
                  => releaseLog[Len(releaseLog)] = Container))
C10_Witness ==
    /\ fpc = "destroyed" /\ ret.variant = "General" /\ Len(arguments) = 3
    /\ releaseLog = <<3, 2, 1, Container>>

====
